---- MODULE Spec2Model ----
(***************************************************************************)
(* Model of the two renderers of jeffjose/cogs:                            *)
(*   phase3-nativewindow/.../native_renderer.cpp  (pixel buffer renderer)  *)
(*   phase4-opengl/.../gl_renderer.cpp            (GPU pipeline renderer)  *)
(*                                                                         *)
(* Numbers.  The code computes in 32-bit floats; the model computes in     *)
(* exact rationals.  Time is counted in ticks of the 0.05 step of          *)
(* g_time, pixel-space lengths are scaled by Half (so that                 *)
(* progress * (rightEdge - leftEdge) is an integer), normalized GPU        *)
(* coordinates are counted in thousandths, and matrix entries are          *)
(* fractions <<numerator, denominator>>.                                   *)
(***************************************************************************)
EXTENDS Integers, Sequences, FiniteSets, TLC

VARIABLES
    \* ---- pixel renderer (native_renderer.cpp) ----
    g_window,         \* ANativeWindow* : NULL or a window id
    g_render_thread,  \* pthread_t      : 0, a thread id, or Garbage
    g_running,        \* bool
    g_time,           \* float, in ticks of 0.05
    ctrl,             \* position of the host control context
    loop,             \* position of the render loop thread
    loopThread,       \* id of the thread that runs renderLoop (0: none)
    sessions,         \* number of surface-created calls so far
    refs,             \* window id -> references held (acquire / release)
    releases,         \* window id -> number of ANativeWindow_release calls
    locked,           \* the window buffer is locked by drawFrame
    buffer,           \* ANativeWindow_Buffer of the locked frame
    pixels,           \* buffer.bits : cell index -> packed colour
    stores,           \* cell indices stored by the last drawing pass, in order
    oob,              \* a store fell outside buffer.bits
    centre,           \* <<cx, cy>> of the last circle pass, scaled by Half
    frames,           \* drawFrame calls started
    afterStop,        \* drawFrame calls started since g_running was cleared
    posts,            \* ANativeWindow_unlockAndPost calls
    posted,           \* the last unlockAndPost succeeded
    \* ---- GPU renderer (gl_renderer.cpp) ----
    g_shaderProgram, g_vbo, g_width, g_height,
    g_circleX, g_circleY, g_velocityX, g_velocityY,
    gl,               \* the GL server's objects
    session,          \* the host's view: a surface session is active
    inits,            \* number of surface-created calls so far
    lastInit,         \* outcome of the last initGL
    flipped,          \* axes whose velocity the last update negated
    mvp,              \* the matrix last passed to glUniformMatrix4fv
    drawnOn,          \* <<g_width, g_height>> of the frame mvp was drawn on
    ticks             \* draw ticks so far

pxVars == <<g_window, g_render_thread, g_running, g_time, ctrl, loop, loopThread,
            sessions, refs, releases, locked, buffer, pixels, stores, oob,
            centre, frames, afterStop, posts, posted>>
glVars == <<g_shaderProgram, g_vbo, g_width, g_height, g_circleX, g_circleY,
            g_velocityX, g_velocityY, gl, session, inits, lastInit, flipped, mvp,
            drawnOn, ticks>>
vars == <<pxVars, glVars>>

(***************************************************************************)
(* Bounds of the model                                                     *)
(***************************************************************************)
MaxSessions == 2      \* surface-created calls explored (pixel renderer)
MaxFrames == 5        \* drawFrame calls explored in the threaded model
PxW == 6              \* window buffer width in the threaded model
PxPad == 1            \* stride - width in the threaded model
PxH == 1              \* window buffer height in the threaded model
MaxInits == 2         \* surface-created calls explored (GPU renderer)
MaxTicks == 125       \* draw ticks explored in the animation
MaxDraws == 2         \* draw ticks explored with failing initialization
MaxW == 21            \* buffer widths 0..MaxW in the single-frame model
MaxH == 2             \* buffer heights 0..MaxH in the single-frame model
TallH == 163          \* a buffer taller than the circle
MaxTallW == 4         \* widths 0..MaxTallW of the tall buffer
MaxPad == 1           \* stride - width ranges over 0..MaxPad
TStep == 4            \* g_time is a multiple of TStep in the single-frame model
MaxK == 11            \* ... up to MaxK * TStep
MaxOff == 1           \* widths within MaxOff of leftEdge + margin, waveform model
MaxDim == 2           \* surface width and height range over 1..MaxDim

(***************************************************************************)
(* Program constants of native_renderer.cpp                                *)
(***************************************************************************)
NULL == 0             \* nullptr
Period == 80          \* 4.0f  in ticks of 0.05f
Half == 40            \* 2.0f  in ticks of 0.05f
TimeWrap == 2000      \* 100.0f in ticks of 0.05f
LeftEdge == 100
Margin == 100         \* rightEdge = width - 100.0f
Radius == 80
WINDOW_FORMAT_RGBA_8888 == 1
OtherFormat == WINDOW_FORMAT_RGBA_8888 + 1   \* any format that is not RGBA_8888

Garbage == -1         \* an indeterminate pthread_t

\* A packed 32-bit colour, as its four bytes from bit 0 upwards.
Pack(b0, b8, b16, b24) == <<b0, b8, b16, b24>>

BgColor(format) ==
    IF format = WINDOW_FORMAT_RGBA_8888
    THEN Pack(20, 20, 30, 255)
    ELSE Pack(30, 20, 20, 255)

CircleColor(format) ==
    IF format = WINDOW_FORMAT_RGBA_8888
    THEN Pack(100, 150, 255, 255)
    ELSE Pack(255, 150, 100, 255)

\* static_cast<int>(n / d) for d > 0: truncation toward zero.
Trunc(n, d) == IF n >= 0 THEN n \div d ELSE -((-n) \div d)

Max(a, b) == IF a >= b THEN a ELSE b
Min(a, b) == IF a <= b THEN a ELSE b

(***************************************************************************)
(* drawFrame: the drawing passes as the sequences of stores they perform   *)
(***************************************************************************)

\* Mutant: the row pitch is width instead of stride.
BackgroundStores_WidthPitch(width, height, stride) ==
    LET nx == Max(0, width)
        ny == Max(0, height)
    IN  [n \in 1..(nx * ny) |->
            LET y == (n - 1) \div nx
                x == (n - 1) % nx
            IN  y * width + x]

\* Background fill: for y in [0,height), for x in [0,width):
\* pixels[y * stride + x] = bgColor.  The n-th store of the nested loop.
BackgroundStores(width, height, stride) ==
    LET nx == Max(0, width)
        ny == Max(0, height)
    IN  [n \in 1..(nx * ny) |->
            LET y == (n - 1) \div nx
                x == (n - 1) % nx
            IN  y * stride + x]

\* Mutant: a sawtooth, the second half of the period restarts from 0.
Progress_Sawtooth(t) ==
    LET cycle == t % Period
    IN  IF cycle < Half THEN cycle ELSE cycle - Half

\* progress, scaled by Half:  cycle = fmodf(g_time, 4.0f);
\* cycle < 2 ? cycle / 2 : 1 - (cycle - 2) / 2.
Progress(t) ==
    LET cycle == t % Period
    IN  IF cycle < Half THEN cycle ELSE Half - (cycle - Half)

\* cx = leftEdge + progress * (rightEdge - leftEdge), scaled by Half.
CircleX(t, width) ==
    LET rightEdge == width - Margin
    IN  LeftEdge * Half + Progress(t) * (rightEdge - LeftEdge)

\* cy = height / 2.0f, scaled by Half.
CircleY(height) == (height * Half) \div 2

\* The clamped bounding box of the circle.
MinY(height, cy) == Max(0, Trunc(cy - Radius * Half, Half))
MaxY(height, cy) == Min(height - 1, Trunc(cy + Radius * Half, Half))
MinX(width, cx) == Max(0, Trunc(cx - Radius * Half, Half))
MaxX(width, cx) == Min(width - 1, Trunc(cx + Radius * Half, Half))

\* Mutant: the boundary is excluded (distSq < radiusSq).
InCircle_Strict(x, y, cx, cy) ==
    LET dx == x * Half - cx
        dy == y * Half - cy
    IN  dx * dx + dy * dy < (Radius * Half) * (Radius * Half)

\* distSq <= radiusSq for the pixel (x, y).
InCircle(x, y, cx, cy) ==
    LET dx == x * Half - cx
        dy == y * Half - cy
    IN  dx * dx + dy * dy <= (Radius * Half) * (Radius * Half)

\* Circle pass: for y in [minY,maxY], for x in [minX,maxX]:
\* if inside, pixels[y * stride + x] = circleColor.
CircleStores(width, height, stride, cx, cy) ==
    LET minY == MinY(height, cy)
        maxY == MaxY(height, cy)
        minX == MinX(width, cx)
        maxX == MaxX(width, cx)
        nx == Max(0, maxX - minX + 1)
        ny == Max(0, maxY - minY + 1)
        box == [n \in 1..(nx * ny) |->
                   <<minX + ((n - 1) % nx), minY + ((n - 1) \div nx)>>]
        hit(c) == InCircle(c[1], c[2], cx, cy)
        hits == SelectSeq(box, hit)
    IN  [n \in 1..Len(hits) |-> hits[n][2] * stride + hits[n][1]]

\* The effect of a pass's stores on buffer.bits.
Store(bits, idxs, colour) ==
    LET S == {idxs[n] : n \in DOMAIN idxs}
    IN  [i \in DOMAIN bits |-> IF i \in S THEN colour ELSE bits[i]]

\* A store outside [0, height * stride) corrupts memory.
OutOfBounds(bits, idxs) == \E n \in DOMAIN idxs : idxs[n] \notin DOMAIN bits

\* g_time += 0.05f; if (g_time > 100.0f) g_time = 0.0f;
AdvanceTime(t) == IF t + 1 > TimeWrap THEN 0 ELSE t + 1

\* The cells of a buffer as the window hands it out: unspecified contents.
Unwritten == Pack(0, 0, 0, 0)
FreshBits(height, stride) == [i \in 0..(height * stride - 1) |-> Unwritten]

(***************************************************************************)
(* Pixel renderer: initial state (the statics of native_renderer.cpp)      *)
(***************************************************************************)
NoBuffer == [width |-> 0, height |-> 0, stride |-> 0,
             format |-> WINDOW_FORMAT_RGBA_8888]

Windows == 1..(MaxSessions + 1)

PxInit ==
    /\ g_window = NULL
    /\ g_render_thread = 0
    /\ g_running = FALSE
    /\ g_time = 0
    /\ ctrl = "idle"
    /\ loop = "none"
    /\ loopThread = 0
    /\ sessions = 0
    /\ refs = [w \in Windows |-> 0]
    /\ releases = [w \in Windows |-> 0]
    /\ locked = FALSE
    /\ buffer = NoBuffer
    /\ pixels = FreshBits(0, 0)
    /\ stores = << >>
    /\ oob = FALSE
    /\ centre = <<0, 0>>
    /\ frames = 0
    /\ afterStop = 0
    /\ posts = 0
    /\ posted = TRUE

frameVars == <<locked, buffer, pixels, stores, oob, centre, frames, afterStop,
               posts, posted>>
hostVars == <<g_window, g_render_thread, g_running, ctrl, loopThread, sessions,
              refs, releases>>

(***************************************************************************)
(* nativeOnSurfaceCreated.  No loop thread exists while it runs up to      *)
(* pthread_create (the host calls it with no session active), so each      *)
(* outcome is one step.                                                    *)
(***************************************************************************)

\* ANativeWindow_fromSurface returns nullptr: log and return.
SurfaceCreatedNoWindow ==
    /\ ctrl = "idle"
    /\ sessions < MaxSessions
    /\ sessions' = sessions + 1
    /\ g_window' = NULL
    /\ ctrl' = "active"
    /\ UNCHANGED <<g_render_thread, g_running, g_time, loop, loopThread, refs,
                   releases, frameVars, glVars>>

\* pthread_create fails: g_running = false; release; g_window = nullptr.
\* POSIX leaves *thread undefined after a failed pthread_create.
SurfaceCreatedNoThread ==
    /\ ctrl = "idle"
    /\ sessions < MaxSessions
    /\ sessions' = sessions + 1
    /\ LET w == sessions + 1
       IN  /\ refs' = [refs EXCEPT ![w] = (@ + 1) - 1]
           /\ releases' = [releases EXCEPT ![w] = @ + 1]
    /\ g_running' = FALSE
    /\ g_window' = NULL
    /\ g_render_thread' \in {g_render_thread, Garbage}
    /\ ctrl' = "active"
    /\ UNCHANGED <<g_time, loop, loopThread, frameVars, glVars>>

\* The window is acquired and the render thread starts in renderLoop.
SurfaceCreatedOk ==
    /\ ctrl = "idle"
    /\ sessions < MaxSessions
    /\ sessions' = sessions + 1
    /\ LET w == sessions + 1
       IN  /\ g_window' = w
           /\ refs' = [refs EXCEPT ![w] = @ + 1]
           /\ g_render_thread' = w
           /\ loopThread' = w
    /\ g_running' = TRUE
    /\ loop' = "check"
    /\ ctrl' = "active"
    /\ UNCHANGED <<g_time, releases, frameVars, glVars>>

(***************************************************************************)
(* nativeOnSurfaceDestroyed, statement by statement: the loop thread runs  *)
(* concurrently with it.                                                   *)
(***************************************************************************)

\* g_running = false;
DestroyedStop ==
    /\ ctrl = "active"
    /\ g_running' = FALSE
    /\ afterStop' = 0
    /\ ctrl' = "join"
    /\ UNCHANGED <<g_window, g_render_thread, g_time, loop, loopThread, sessions,
                   refs, releases, locked, buffer, pixels, stores, oob, centre,
                   frames, posts, posted, glVars>>

\* Mutant: the join does not wait for the loop thread (a detach, or a
\* release placed before the join).
DestroyedJoin_NoWait ==
    /\ ctrl = "join"
    /\ g_render_thread # 0
    /\ g_render_thread = loopThread
    /\ g_render_thread' = 0
    /\ ctrl' = "release"
    /\ UNCHANGED <<g_window, g_running, g_time, loop, loopThread, sessions, refs,
                   releases, frameVars, glVars>>

\* if (g_render_thread) { pthread_join(...); g_render_thread = 0; }
\* pthread_join returns once the thread has left renderLoop.
DestroyedJoin ==
    /\ ctrl = "join"
    /\ g_render_thread # 0
    /\ g_render_thread = loopThread
    /\ loop = "exited"
    /\ loop' = "none"
    /\ loopThread' = 0
    /\ g_render_thread' = 0
    /\ ctrl' = "release"
    /\ UNCHANGED <<g_window, g_running, g_time, sessions, refs, releases,
                   frameVars, glVars>>

\* pthread_join on a pthread_t that names no thread is undefined: it
\* returns an error, or the process is aborted.
DestroyedJoinInvalid ==
    /\ ctrl = "join"
    /\ g_render_thread # 0
    /\ g_render_thread # loopThread
    /\ \/ /\ g_render_thread' = 0
          /\ ctrl' = "release"
       \/ /\ g_render_thread' = g_render_thread
          /\ ctrl' = "aborted"
    /\ UNCHANGED <<g_window, g_running, g_time, loop, loopThread, sessions, refs,
                   releases, frameVars, glVars>>

\* g_render_thread == 0: nothing to join.
DestroyedNoThread ==
    /\ ctrl = "join"
    /\ g_render_thread = 0
    /\ ctrl' = "release"
    /\ UNCHANGED <<g_window, g_render_thread, g_running, g_time, loop, loopThread,
                   sessions, refs, releases, frameVars, glVars>>

\* if (g_window) { ANativeWindow_release(g_window); g_window = nullptr; }
DestroyedRelease ==
    /\ ctrl = "release"
    /\ IF g_window # NULL
       THEN /\ refs' = [refs EXCEPT ![g_window] = @ - 1]
            /\ releases' = [releases EXCEPT ![g_window] = @ + 1]
            /\ g_window' = NULL
       ELSE UNCHANGED <<refs, releases, g_window>>
    /\ ctrl' = "idle"
    /\ UNCHANGED <<g_render_thread, g_running, g_time, loop, loopThread, sessions,
                   frameVars, glVars>>

(***************************************************************************)
(* renderLoop and drawFrame, on the loop thread                            *)
(***************************************************************************)

\* Mutant: the loop never re-reads the flag (a cached g_running).
LoopCheckRun_Stale ==
    /\ loop = "check"
    /\ frames < MaxFrames
    /\ loop' = "draw"
    /\ UNCHANGED <<hostVars, g_time, frameVars, glVars>>

\* while (g_running) -- true: call drawFrame.
LoopCheckRun ==
    /\ loop = "check"
    /\ g_running
    /\ frames < MaxFrames
    /\ loop' = "draw"
    /\ UNCHANGED <<hostVars, g_time, frameVars, glVars>>

\* while (g_running) -- false: leave the loop and return.
LoopCheckExit ==
    /\ loop = "check"
    /\ ~g_running
    /\ loop' = "exited"
    /\ UNCHANGED <<hostVars, g_time, frameVars, glVars>>

\* drawFrame entry: if (!g_window) { log; return; }
DrawEnter ==
    /\ loop = "draw"
    /\ frames' = frames + 1
    /\ afterStop' = IF g_running THEN afterStop ELSE afterStop + 1
    /\ loop' = IF g_window = NULL THEN "sleep" ELSE "lock"
    /\ UNCHANGED <<hostVars, g_time, locked, buffer, pixels, stores, oob, centre,
                   posts, posted, glVars>>

\* Mutant: the return after the failed lock is missing.
DrawLockFail_NoReturn ==
    /\ loop = "lock"
    /\ loop' = "time"
    /\ UNCHANGED <<hostVars, g_time, frameVars, glVars>>

\* ANativeWindow_lock(g_window, &buffer, nullptr) < 0: log; return.
DrawLockFail ==
    /\ loop = "lock"
    /\ loop' = "sleep"
    /\ UNCHANGED <<hostVars, g_time, frameVars, glVars>>

\* ANativeWindow_lock succeeds and fills in buffer.
DrawLock(w, h, s, f) ==
    /\ loop = "lock"
    /\ locked' = TRUE
    /\ buffer' = [width |-> w, height |-> h, stride |-> s, format |-> f]
    /\ pixels' = FreshBits(h, s)
    /\ stores' = << >>
    /\ loop' = "fill"
    /\ UNCHANGED <<hostVars, g_time, oob, centre, frames, afterStop, posts,
                   posted, glVars>>

\* The background loops.
DrawFill ==
    /\ loop = "fill"
    /\ \E st \in {BackgroundStores(buffer.width, buffer.height, buffer.stride)} :
           /\ stores' = st
           /\ pixels' = Store(pixels, st, BgColor(buffer.format))
           /\ oob' = (oob \/ OutOfBounds(pixels, st))
    /\ loop' = "circle"
    /\ UNCHANGED <<hostVars, g_time, locked, buffer, centre, frames, afterStop,
                   posts, posted, glVars>>

\* The circle loops.
DrawCircle ==
    /\ loop = "circle"
    /\ \E cx \in {CircleX(g_time, buffer.width)}, cy \in {CircleY(buffer.height)} :
       \E st \in {CircleStores(buffer.width, buffer.height, buffer.stride, cx, cy)} :
           /\ centre' = <<cx, cy>>
           /\ stores' = st
           /\ pixels' = Store(pixels, st, CircleColor(buffer.format))
           /\ oob' = (oob \/ OutOfBounds(pixels, st))
    /\ loop' = "time"
    /\ UNCHANGED <<hostVars, g_time, locked, buffer, frames, afterStop, posts,
                   posted, glVars>>

\* g_time += 0.05f with its wrap.
DrawTime ==
    /\ loop = "time"
    /\ g_time' = AdvanceTime(g_time)
    /\ loop' = "unlock"
    /\ UNCHANGED <<hostVars, frameVars, glVars>>

\* Mutant: a failed unlock-and-post stops the render loop.
DrawUnlock_StopOnFail(ok) ==
    /\ loop = "unlock"
    /\ locked' = FALSE
    /\ posts' = posts + 1
    /\ posted' = ok
    /\ g_running' = (g_running /\ ok)
    /\ loop' = "sleep"
    /\ UNCHANGED <<g_window, g_render_thread, ctrl, loopThread, sessions, refs,
                   releases, g_time, buffer, pixels, stores, oob, centre, frames,
                   afterStop, glVars>>

\* ANativeWindow_unlockAndPost(g_window); a failure is only logged.
DrawUnlock(ok) ==
    /\ loop = "unlock"
    /\ locked' = FALSE
    /\ posts' = posts + 1
    /\ posted' = ok
    /\ loop' = "sleep"
    /\ UNCHANGED <<hostVars, g_time, buffer, pixels, stores, oob, centre, frames,
                   afterStop, glVars>>

\* usleep(targetFrameTime);
LoopSleep ==
    /\ loop = "sleep"
    /\ loop' = "check"
    /\ UNCHANGED <<hostVars, g_time, frameVars, glVars>>

(***************************************************************************)
(* GPU renderer: the GL server                                             *)
(***************************************************************************)

\* GL objects are named 1, 2, ...; kind[id] is the object's kind and
\* dels[id] the number of glDelete* calls made on it.
NoObjects == [kind |-> << >>, dels |-> << >>]

GlNew(g, k) == [kind |-> Append(g.kind, k), dels |-> Append(g.dels, 0)]
GlLast(g) == Len(g.kind)

\* glDeleteShader / glDeleteProgram / glDeleteBuffers; the name 0 is ignored.
GlDelete(g, id) == IF id = 0 THEN g ELSE [g EXCEPT !.dels[id] = @ + 1]

\* compileShader(type, source): the handle and the GL state it leaves.
\* outcome: "nocreate" (glCreateShader returns 0), "nocompile", "ok".
CompileShader(g, k, outcome) ==
    IF outcome = "nocreate" THEN [g |-> g, h |-> 0]
    ELSE LET g1 == GlNew(g, k)
             shader == GlLast(g1)
         IN  IF outcome = "nocompile"
             THEN [g |-> GlDelete(g1, shader), h |-> 0]
             ELSE [g |-> g1, h |-> shader]

\* Mutant: the vertex shader is not released when the fragment shader fails.
CreateProgram_LeakVertex(g, vsOutcome, fsOutcome, progOk, linkOk) ==
    LET vs == CompileShader(g, "vertex", vsOutcome)
    IN  IF vs.h = 0 THEN [g |-> vs.g, h |-> 0]
        ELSE
        LET fs == CompileShader(vs.g, "fragment", fsOutcome)
        IN  IF fs.h = 0 THEN [g |-> fs.g, h |-> 0]
            ELSE
            IF ~progOk
            THEN [g |-> GlDelete(GlDelete(fs.g, vs.h), fs.h), h |-> 0]
            ELSE
            LET g3 == GlNew(fs.g, "program")
                program == GlLast(g3)
            IN  IF ~linkOk
                THEN [g |-> GlDelete(GlDelete(GlDelete(g3, program), vs.h), fs.h),
                      h |-> 0]
                ELSE [g |-> GlDelete(GlDelete(g3, vs.h), fs.h), h |-> program]

\* createProgram(vertexSource, fragmentSource).
CreateProgram(g, vsOutcome, fsOutcome, progOk, linkOk) ==
    LET vs == CompileShader(g, "vertex", vsOutcome)
    IN  IF vs.h = 0 THEN [g |-> vs.g, h |-> 0]
        ELSE
        LET fs == CompileShader(vs.g, "fragment", fsOutcome)
        IN  IF fs.h = 0 THEN [g |-> GlDelete(fs.g, vs.h), h |-> 0]
            ELSE
            IF ~progOk
            THEN [g |-> GlDelete(GlDelete(fs.g, vs.h), fs.h), h |-> 0]
            ELSE
            LET g3 == GlNew(fs.g, "program")
                program == GlLast(g3)
            IN  IF ~linkOk
                THEN [g |-> GlDelete(GlDelete(GlDelete(g3, program), vs.h), fs.h),
                      h |-> 0]
                ELSE [g |-> GlDelete(GlDelete(g3, vs.h), fs.h), h |-> program]

\* initGL(): the statics and GL state it leaves, and its return value.
InitGL(g, vbo, vsOutcome, fsOutcome, progOk, linkOk) ==
    LET p == CreateProgram(g, vsOutcome, fsOutcome, progOk, linkOk)
    IN  IF p.h = 0
        THEN [g |-> p.g, program |-> 0, vbo |-> vbo, ok |-> FALSE]
        ELSE LET g1 == GlNew(p.g, "buffer")
             IN  [g |-> g1, program |-> p.h, vbo |-> GlLast(g1), ok |-> TRUE]

\* Mutant: the handles are not reset to 0 after the release.
CleanupGL_NoSentinel(g, vbo, program) ==
    LET g1 == IF vbo # 0 THEN GlDelete(g, vbo) ELSE g
        g2 == IF program # 0 THEN GlDelete(g1, program) ELSE g1
    IN  [g |-> g2, vbo |-> vbo, program |-> program]

\* cleanupGL().
CleanupGL(g, vbo, program) ==
    LET g1 == IF vbo # 0 THEN GlDelete(g, vbo) ELSE g
        g2 == IF program # 0 THEN GlDelete(g1, program) ELSE g1
    IN  [g |-> g2, vbo |-> 0, program |-> 0]

(***************************************************************************)
(* GPU renderer: animation, in thousandths of the normalized unit          *)
(***************************************************************************)
One == 1000               \* 1.0f
CircleRadius == 100       \* g_circleRadius = 0.1f
InitCircleX == 500        \* g_circleX = 0.5f
InitCircleY == 500        \* g_circleY = 0.5f
InitVelocityX == 10       \* g_velocityX = 0.01f
InitVelocityY == 15       \* g_velocityY = 0.015f

\* Mutant: the test ignores the radius (the centre, not the edge).
HitsEdge_Centre(pos) == pos < 0 \/ pos > One

\* pos - radius < 0 || pos + radius > 1
HitsEdge(pos) == pos - CircleRadius < 0 \/ pos + CircleRadius > One

\* std::max(radius, std::min(1 - radius, pos))
Clamp(pos) == Max(CircleRadius, Min(One - CircleRadius, pos))

\* updateAnimation(), on a = [x, y, vx, vy].
UpdateAnimation(a) ==
    LET x1 == a.x + a.vx
        y1 == a.y + a.vy
        hitX == HitsEdge(x1)
        hitY == HitsEdge(y1)
    IN  [x |-> IF hitX THEN Clamp(x1) ELSE x1,
         vx |-> IF hitX THEN -a.vx ELSE a.vx,
         y |-> IF hitY THEN Clamp(y1) ELSE y1,
         vy |-> IF hitY THEN -a.vy ELSE a.vy]

(***************************************************************************)
(* GPU renderer: matrices.  An entry is a fraction <<n, d>> in lowest      *)
(* terms with d > 0; a matrix is float[16], indexed 0..15.                 *)
(***************************************************************************)
RECURSIVE Gcd(_, _)
Gcd(a, b) == IF b = 0 THEN a ELSE Gcd(b, a % b)

Abs(n) == IF n < 0 THEN -n ELSE n

Q(n, d) ==
    LET g == Gcd(Abs(n), Abs(d))
        sg == IF d < 0 THEN -1 ELSE 1
    IN  <<(sg * n) \div g, (sg * d) \div g>>

QInt(n) == <<n, 1>>
QAdd(a, b) == Q(a[1] * b[2] + b[1] * a[2], a[2] * b[2])
QSub(a, b) == Q(a[1] * b[2] - b[1] * a[2], a[2] * b[2])
QMul(a, b) == Q(a[1] * b[1], a[2] * b[2])
QDiv(a, b) == Q(a[1] * b[2], a[2] * b[1])
QNeg(a) == <<-a[1], a[2]>>
QGeq(a, b) == a[1] * b[2] >= b[1] * a[2]

\* createOrthoMatrix(matrix, left, right, bottom, top)
CreateOrthoMatrix(left, right, bottom, top) ==
    [i \in 0..15 |->
        CASE i = 0 -> QDiv(QInt(2), QSub(right, left))
          [] i = 5 -> QDiv(QInt(2), QSub(top, bottom))
          [] i = 10 -> QInt(-1)
          [] i = 12 -> QNeg(QDiv(QAdd(right, left), QSub(right, left)))
          [] i = 13 -> QNeg(QDiv(QAdd(top, bottom), QSub(top, bottom)))
          [] i = 15 -> QInt(1)
          [] OTHER -> QInt(0)]

\* createTranslationMatrix(matrix, tx, ty)
CreateTranslationMatrix(tx, ty) ==
    [i \in 0..15 |->
        CASE i = 0 -> QInt(1)
          [] i = 5 -> QInt(1)
          [] i = 10 -> QInt(1)
          [] i = 12 -> tx
          [] i = 13 -> ty
          [] i = 15 -> QInt(1)
          [] OTHER -> QInt(0)]

\* multiplyMatrix(result, a, b): temp[i*4+j] += a[i*4+k] * b[k*4+j]
MultiplyMatrix(a, b) ==
    [n \in 0..15 |->
        LET i == n \div 4
            j == n % 4
            term(k) == QMul(a[i * 4 + k], b[k * 4 + j])
        IN  QAdd(QAdd(QAdd(QAdd(QInt(0), term(0)), term(1)), term(2)), term(3))]

\* renderFrame(): aspect = g_width / g_height.
Aspect(width, height) == Q(width, height)

\* renderFrame(): projectionMatrix, by the branch on aspect >= 1.
ProjectionMatrix(width, height) ==
    LET aspect == Aspect(width, height)
        one == QInt(1)
    IN  IF QGeq(aspect, one)
        THEN CreateOrthoMatrix(QNeg(aspect), aspect, QNeg(one), one)
        ELSE CreateOrthoMatrix(QNeg(one), one,
                               QDiv(QNeg(one), aspect), QDiv(one, aspect))

\* renderFrame(): modelMatrix, the translation with its two scale entries
\* overwritten.
ModelMatrix(width, height, circleXn, circleYn) ==
    LET aspect == Aspect(width, height)
        one == QInt(1)
        circleX == QMul(QSub(QMul(Q(circleXn, One), QInt(2)), one), aspect)
        circleY == QSub(QMul(Q(circleYn, One), QInt(2)), one)
        radius == Q(CircleRadius, One)
    IN  [CreateTranslationMatrix(circleX, circleY)
            EXCEPT ![0] = QMul(radius, aspect), ![5] = radius]

\* renderFrame(): the matrix it passes to glUniformMatrix4fv.
RenderMatrix(width, height, circleXn, circleYn) ==
    MultiplyMatrix(ProjectionMatrix(width, height),
                   ModelMatrix(width, height, circleXn, circleYn))

\* The vertex shader's gl_Position = uMVPMatrix * aPosition for the vertex
\* (vx, vy, 0, 1); glUniformMatrix4fv(..., GL_FALSE, m) reads m column-major.
ShaderPosition(m, vx, vy) ==
    [c \in 0..3 |->
        QAdd(QAdd(QMul(m[c], vx), QMul(m[4 + c], vy)), m[12 + c])]

(***************************************************************************)
(* GPU renderer: initial state and the JNI entry points                    *)
(***************************************************************************)
NoMatrix == << >>

GlInit ==
    /\ g_shaderProgram = 0
    /\ g_vbo = 0
    /\ g_width = 0
    /\ g_height = 0
    /\ g_circleX = InitCircleX
    /\ g_circleY = InitCircleY
    /\ g_velocityX = InitVelocityX
    /\ g_velocityY = InitVelocityY
    /\ gl = NoObjects
    /\ session = FALSE
    /\ inits = 0
    /\ lastInit = [ok |-> FALSE, failed |-> "never"]
    /\ flipped = {}
    /\ mvp = NoMatrix
    /\ drawnOn = <<0, 0>>
    /\ ticks = 0

ShaderOutcomes == {"ok", "nocreate", "nocompile"}

\* The first step of initGL that the GL reports as failed.
FirstFailure(vsOutcome, fsOutcome, progOk, linkOk) ==
    IF vsOutcome # "ok" THEN "vertex"
    ELSE IF fsOutcome # "ok" THEN "fragment"
    ELSE IF ~progOk THEN "program"
    ELSE IF ~linkOk THEN "link"
    ELSE "none"

\* nativeOnSurfaceCreated: initGL().
GlSurfaceCreated(vsOutcome, fsOutcome, progOk, linkOk) ==
    /\ ~session
    /\ inits < MaxInits
    /\ LET r == InitGL(gl, g_vbo, vsOutcome, fsOutcome, progOk, linkOk)
       IN  /\ gl' = r.g
           /\ g_shaderProgram' = r.program
           /\ g_vbo' = r.vbo
           /\ lastInit' = [ok |-> r.ok,
                           failed |-> FirstFailure(vsOutcome, fsOutcome, progOk, linkOk)]
    /\ session' = TRUE
    /\ inits' = inits + 1
    /\ UNCHANGED <<g_width, g_height, g_circleX, g_circleY, g_velocityX,
                   g_velocityY, flipped, mvp, drawnOn, ticks, pxVars>>

\* nativeOnSurfaceChanged(width, height).
GlSurfaceChanged(width, height) ==
    /\ session
    /\ g_width' = width
    /\ g_height' = height
    /\ UNCHANGED <<g_shaderProgram, g_vbo, g_circleX, g_circleY, g_velocityX,
                   g_velocityY, gl, session, inits, lastInit, flipped, mvp, drawnOn,
                   ticks, pxVars>>

\* nativeOnDrawFrame: updateAnimation(); renderFrame().  The host reports
\* the surface size before the first draw tick.
GlDrawFrame(limit) ==
    /\ session
    /\ g_width > 0 /\ g_height > 0
    /\ ticks < limit
    /\ LET a == UpdateAnimation([x |-> g_circleX, y |-> g_circleY,
                                 vx |-> g_velocityX, vy |-> g_velocityY])
       IN  /\ g_circleX' = a.x
           /\ g_circleY' = a.y
           /\ g_velocityX' = a.vx
           /\ g_velocityY' = a.vy
           /\ flipped' = {ax \in {"x", "y"} :
                             \/ ax = "x" /\ a.vx # g_velocityX
                             \/ ax = "y" /\ a.vy # g_velocityY}
           /\ mvp' = RenderMatrix(g_width, g_height, a.x, a.y)
    /\ drawnOn' = <<g_width, g_height>>
    /\ ticks' = ticks + 1
    /\ UNCHANGED <<g_shaderProgram, g_vbo, g_width, g_height, gl, session, inits,
                   lastInit, pxVars>>

\* nativeOnSurfaceDestroyed: cleanupGL().
GlSurfaceDestroyed ==
    /\ LET r == CleanupGL(gl, g_vbo, g_shaderProgram)
       IN  /\ gl' = r.g
           /\ g_vbo' = r.vbo
           /\ g_shaderProgram' = r.program
    /\ session' = FALSE
    /\ UNCHANGED <<g_width, g_height, g_circleX, g_circleY, g_velocityX,
                   g_velocityY, inits, lastInit, flipped, mvp, drawnOn, ticks,
                   pxVars>>

(***************************************************************************)
(* Specifications                                                          *)
(***************************************************************************)

\* The pixel renderer: host control context and render loop thread.
PxNext ==
    \/ SurfaceCreatedNoWindow
    \/ SurfaceCreatedNoThread
    \/ SurfaceCreatedOk
    \/ DestroyedStop
    \/ DestroyedJoin
    \/ DestroyedJoinInvalid
    \/ DestroyedNoThread
    \/ DestroyedRelease
    \/ LoopCheckRun
    \/ LoopCheckExit
    \/ DrawEnter
    \/ DrawLockFail
    \/ DrawLock(PxW, PxH, PxW + PxPad, WINDOW_FORMAT_RGBA_8888)
    \/ DrawFill
    \/ DrawCircle
    \/ DrawTime
    \/ \E ok \in BOOLEAN : DrawUnlock(ok)
    \/ LoopSleep

Init == PxInit /\ GlInit

SpecPx == Init /\ [][PxNext]_vars

\* The scheduler runs the loop thread, and the control context while it is
\* inside nativeOnSurfaceDestroyed; the host need not ever call an entry point.
LoopStep ==
    \/ LoopCheckRun \/ LoopCheckExit \/ DrawEnter \/ DrawLockFail
    \/ DrawLock(PxW, PxH, PxW + PxPad, WINDOW_FORMAT_RGBA_8888)
    \/ DrawFill \/ DrawCircle \/ DrawTime
    \/ (\E ok \in BOOLEAN : DrawUnlock(ok)) \/ LoopSleep

DestroyedStep ==
    DestroyedJoin \/ DestroyedJoinInvalid \/ DestroyedNoThread \/ DestroyedRelease

SpecPxFair == SpecPx /\ WF_vars(LoopStep) /\ WF_vars(DestroyedStep)

\* The GPU renderer: the host serializes the four entry points.
GlSizes == (1..MaxDim) \X (1..MaxDim)

GlNext ==
    \/ \E vo, fo \in ShaderOutcomes, po, lo \in BOOLEAN :
          GlSurfaceCreated(vo, fo, po, lo)
    \/ \E sz \in GlSizes : GlSurfaceChanged(sz[1], sz[2])
    \/ GlDrawFrame(MaxDraws)
    \/ GlSurfaceDestroyed

SpecGL == Init /\ [][GlNext]_vars

\* The GPU renderer with initialization succeeding, over many draw ticks.
AnimNext ==
    \/ GlSurfaceCreated("ok", "ok", TRUE, TRUE)
    \/ \E sz \in GlSizes : GlSurfaceChanged(sz[1], sz[2])
    \/ GlDrawFrame(MaxTicks)
    \/ GlSurfaceDestroyed

SpecAnim == Init /\ [][AnimNext]_vars

\* One drawFrame call, for a range of its inputs: g_window (a window or
\* nullptr), g_time, and the buffer geometry the lock hands out.
FrameInit(times) ==
    /\ g_window \in {NULL, 1}
    /\ g_render_thread = 1
    /\ g_running = TRUE
    /\ g_time \in times
    /\ ctrl = "active"
    /\ loop = "draw"
    /\ loopThread = 1
    /\ sessions = 1
    /\ refs = [w \in Windows |-> IF w = g_window THEN 1 ELSE 0]
    /\ releases = [w \in Windows |-> 0]
    /\ locked = FALSE
    /\ buffer = NoBuffer
    /\ pixels = FreshBits(0, 0)
    /\ stores = << >>
    /\ oob = FALSE
    /\ centre = <<0, 0>>
    /\ frames = 0
    /\ afterStop = 0
    /\ posts = 0
    /\ posted = TRUE

Formats == {WINDOW_FORMAT_RGBA_8888, OtherFormat}

FrameSizes == ((0..MaxW) \X (0..MaxH)) \cup ((0..MaxTallW) \X {TallH})

FrameNext ==
    \/ DrawEnter
    \/ DrawLockFail
    \/ LoopSleep
    \/ \E sz \in FrameSizes, pad \in 0..MaxPad, f \in Formats :
          DrawLock(sz[1], sz[2], sz[1] + pad, f)
    \/ DrawFill
    \/ DrawCircle
    \/ DrawTime
    \/ DrawUnlock(TRUE)

FrameTimes == {k * TStep : k \in 0..MaxK}

FrameStart == FrameInit(FrameTimes) /\ GlInit

SpecFrame == FrameStart /\ [][FrameNext]_vars

\* The same, for every value g_time can take and widths around
\* leftEdge + margin, on buffers of height 0.
WaveWidths == (LeftEdge + Margin - MaxOff)..(LeftEdge + Margin + MaxOff)

WaveNext ==
    \/ DrawEnter
    \/ DrawLockFail
    \/ LoopSleep
    \/ \E w \in WaveWidths : DrawLock(w, 0, w, WINDOW_FORMAT_RGBA_8888)
    \/ DrawFill
    \/ DrawCircle
    \/ DrawTime
    \/ DrawUnlock(TRUE)

WaveStart == FrameInit(0..TimeWrap) /\ GlInit

SpecWave == WaveStart /\ [][WaveNext]_vars

(***************************************************************************)
(* Claims                                                                  *)
(***************************************************************************)
InDrawFrame == {"draw", "lock", "fill", "circle", "time", "unlock"}

\* C1: teardown ordering.  In every interleaving, surface-destroyed clears
\* the running flag, then joins the loop thread, and only then releases the
\* window: whenever the loop thread is inside drawFrame, g_window is not
\* null and names a window that still holds its reference; the window of a
\* live loop thread is never released; and when the control context is at
\* the release, the flag is clear and the thread has been joined.
C1_TeardownOrder ==
    /\ loop \in InDrawFrame => (g_window # NULL /\ refs[g_window] > 0)
    /\ loopThread # 0 => (refs[loopThread] > 0 /\ releases[loopThread] = 0)
    /\ ctrl = "release" => (~g_running /\ loop = "none" /\ loopThread = 0)

\* C1 witness: the stop has been signalled while the loop thread is in the
\* middle of a frame (about to post), with the window still held.
C1_Witness == ctrl = "join" /\ loop = "unlock" /\ locked

\* C2: bounded and complete stop.  After the flag is cleared the loop
\* starts at most one further frame; under fair scheduling the stop of an
\* active session leads to surface-destroyed having returned with the
\* renderer Idle: flag false, thread handle cleared, window absent, no thread.
Idle ==
    /\ ctrl = "idle"
    /\ ~g_running
    /\ g_render_thread = 0
    /\ g_window = NULL
    /\ loop = "none"
    /\ loopThread = 0

C2_BoundedStop ==
    /\ [](afterStop <= 1)
    /\ [](ctrl = "idle" => Idle)
    /\ (ctrl = "join" /\ loopThread # 0) ~> Idle

\* C2 witness: the one further frame has happened and the session has
\* been torn down to Idle.
C2_Witness == Idle /\ afterStop = 1 /\ sessions > 0

\* The cells row * stride + col of the logical pixels of the locked buffer.
LogicalCells ==
    {row * buffer.stride + col :
        row \in 0..(buffer.height - 1), col \in 0..(buffer.width - 1)}

StoredCells == {stores[n] : n \in DOMAIN stores}

\* C3: background fill bounds.  For every buffer with stride >= width >= 0
\* and height >= 0, the background fill stores to exactly the height*width
\* cells row*stride + col (0 <= row < height, 0 <= col < width), each
\* exactly once, never to a padding cell and never at or beyond
\* height*stride; the stored cells hold the background colour and the
\* padding cells are untouched.
C3_FillBounds ==
    (loop = "circle" /\ buffer.stride >= buffer.width) =>
        /\ Len(stores) = buffer.height * buffer.width
        /\ StoredCells = LogicalCells
        /\ Cardinality(StoredCells) = Len(stores)
        /\ \A i \in StoredCells :
              /\ 0 <= i /\ i < buffer.height * buffer.stride
              /\ i % buffer.stride < buffer.width
        /\ ~oob
        /\ \A i \in DOMAIN pixels :
              pixels[i] = IF i \in LogicalCells THEN BgColor(buffer.format)
                          ELSE Unwritten

\* C3 witness: a filled buffer of several rows with padding.
C3_Witness ==
    /\ loop = "circle"
    /\ buffer.stride > buffer.width
    /\ buffer.width > 1
    /\ buffer.height > 1
    /\ Len(stores) = buffer.height * buffer.width

\* C8: circle rasterization.  After the circle pass, a pixel (x, y) of the
\* buffer holds the circle colour if and only if
\* (x-cx)^2 + (y-cy)^2 <= radius^2 (equality included) and the background
\* colour otherwise; no store of the pass falls outside the buffer.
C8_CircleRaster ==
    loop = "time" =>
        /\ \A x \in 0..(buffer.width - 1), y \in 0..(buffer.height - 1) :
              LET dx == x * Half - centre[1]
                  dy == y * Half - centre[2]
                  inside == dx * dx + dy * dy <= (Radius * Half) * (Radius * Half)
              IN  pixels[y * buffer.stride + x] =
                      IF inside THEN CircleColor(buffer.format)
                      ELSE BgColor(buffer.format)
        /\ \A i \in StoredCells : i \in LogicalCells
        /\ ~oob

\* C8 witness: after the circle pass a pixel exactly on the circle (equality)
\* is coloured, another pixel of the same buffer is outside, and the
\* bounding box was clamped at the buffer's left edge.
C8_Witness ==
    /\ loop = "time"
    /\ \E x \in 0..(buffer.width - 1), y \in 0..(buffer.height - 1) :
          LET dx == x * Half - centre[1]
              dy == y * Half - centre[2]
          IN  /\ dx * dx + dy * dy = (Radius * Half) * (Radius * Half)
              /\ pixels[y * buffer.stride + x] = CircleColor(buffer.format)
    /\ \E i \in LogicalCells : pixels[i] = BgColor(buffer.format)
    /\ centre[1] - Radius * Half < 0

\* The waveform properties of the horizontal centre at g_time = t for a
\* buffer of width w: period 4.0, rising on [0,2), falling on [2,4), no
\* jump between neighbouring values of t (continuity, the breakpoints
\* included), leftEdge at t mod 4 = 0, and within [leftEdge, rightEdge].
Waveform(t, w, cx) ==
    LET next == CircleX(t + 1, w)
        step == IF next >= cx THEN next - cx ELSE cx - next
        slope == IF w - Margin >= LeftEdge THEN (w - Margin) - LeftEdge
                 ELSE LeftEdge - (w - Margin)
    IN  /\ CircleX(t + Period, w) = cx
        /\ t % Period < Half => next > cx
        /\ t % Period >= Half => next < cx
        /\ step = slope
        /\ t % Period = 0 => cx = LeftEdge * Half
        /\ t % Period = Half => cx = (w - Margin) * Half
        /\ LeftEdge * Half <= cx
        /\ cx <= (w - Margin) * Half

\* C9 as stated: the waveform properties hold for every buffer width.
C9_WaveformAnyWidth ==
    loop = "time" => Waveform(g_time, buffer.width, centre[1])

\* C9 amended: for every buffer wider than leftEdge + margin (rightEdge >
\* leftEdge) and every value of g_time, the horizontal centre has the
\* waveform properties.
C9_Waveform ==
    (loop = "time" /\ buffer.width > LeftEdge + Margin) =>
        Waveform(g_time, buffer.width, centre[1])

\* C9 witness: the peak, at the breakpoint t mod 4 = 2 late in the
\* accumulator's range, on a buffer wider than 200.
C9_Witness ==
    /\ loop = "time"
    /\ buffer.width > LeftEdge + Margin
    /\ g_time % Period = Half
    /\ g_time > TimeWrap - Period
    /\ centre[1] = (buffer.width - Margin) * Half

\* C4: bounce.  In every animation update, per axis: the velocity is
\* negated exactly when the integrated position puts the circle's edge
\* outside [0,1] on that axis (whatever the other axis does) and is
\* unchanged otherwise; an axis negated by the previous update is not
\* negated again; and the position afterwards lies in [radius, 1-radius].
AxisBounce(pos, vel, pos2, vel2, hitBefore) ==
    LET moved == pos + vel
        outside == moved - CircleRadius < 0 \/ moved + CircleRadius > One
    IN  /\ outside => (vel2 = -vel /\ pos2 \in {CircleRadius, One - CircleRadius})
        /\ ~outside => (vel2 = vel /\ pos2 = moved)
        /\ hitBefore => ~outside
        /\ CircleRadius <= pos2 /\ pos2 <= One - CircleRadius

C4_Bounce ==
    [][ticks' # ticks =>
          /\ AxisBounce(g_circleX, g_velocityX, g_circleX', g_velocityX',
                        "x" \in flipped)
          /\ AxisBounce(g_circleY, g_velocityY, g_circleY', g_velocityY',
                        "y" \in flipped)
          /\ flipped' = {ax \in {"x", "y"} :
                            \/ ax = "x" /\ g_velocityX' = -g_velocityX
                            \/ ax = "y" /\ g_velocityY' = -g_velocityY}]_vars

\* C4 witness: the update has just bounced the circle off the lower edge of
\* the vertical axis alone, the horizontal axis having bounced before.
C4_Witness ==
    /\ flipped = {"y"}
    /\ g_circleY = CircleRadius
    /\ g_velocityY > 0
    /\ g_velocityX < 0

\* C5: initialization failure path.  Whenever the vertex compile, the
\* fragment compile, the program creation or the link fails, initGL fails
\* with g_shaderProgram = 0, every object created during the attempt has
\* been deleted (once), and no vertex buffer was created; when none fails,
\* initGL succeeds, both shaders are deleted, and the program and the
\* vertex buffer it created are alive and held by the two handles.
C5_InitFailure ==
    [][inits' # inits =>
          LET made == (Len(gl.kind) + 1)..Len(gl'.kind)
              kindOf(id) == gl'.kind[id]
          IN  /\ \A id \in 1..Len(gl.kind) : gl'.dels[id] = gl.dels[id]
              /\ lastInit'.ok = (lastInit'.failed = "none")
              /\ IF lastInit'.failed # "none"
                 THEN /\ g_shaderProgram' = 0
                      /\ g_vbo' = g_vbo
                      /\ \A id \in made :
                            gl'.dels[id] = 1 /\ kindOf(id) # "buffer"
                 ELSE /\ {kindOf(id) : id \in made} =
                             {"vertex", "fragment", "program", "buffer"}
                      /\ Cardinality(made) = 4
                      /\ \A id \in made :
                            gl'.dels[id] =
                                IF kindOf(id) \in {"vertex", "fragment"}
                                THEN 1 ELSE 0
                      /\ g_shaderProgram' \in made
                      /\ kindOf(g_shaderProgram') = "program"
                      /\ g_vbo' \in made
                      /\ kindOf(g_vbo') = "buffer"]_vars

\* C5 witness: a link failure, after which the three objects of the attempt
\* are deleted and the handles are 0.
C5_Witness ==
    /\ lastInit.failed = "link"
    /\ session
    /\ g_shaderProgram = 0
    /\ Len(gl.kind) >= 3
    /\ gl.kind[Len(gl.kind)] = "program"
    /\ gl.dels[Len(gl.kind)] = 1

\* C6: teardown releases each resource exactly once.  No object is ever
\* deleted twice; the objects alive are exactly those the two handles
\* name; and whenever no session is active (after surface-destroyed, and
\* after any further surface-destroyed) both handles are 0 and every
\* vertex buffer and program created so far has been deleted exactly once.
C6_ReleaseOnce ==
    /\ \A id \in DOMAIN gl.dels : gl.dels[id] <= 1
    /\ {id \in DOMAIN gl.dels : gl.dels[id] = 0} = {g_vbo, g_shaderProgram} \ {0}
    /\ ~session =>
          /\ g_vbo = 0
          /\ g_shaderProgram = 0
          /\ \A id \in DOMAIN gl.dels : gl.dels[id] = 1

\* C6 witness: two sessions that initialized successfully and drew have
\* been torn down.
C6_Witness ==
    /\ ~session
    /\ inits = 2
    /\ ticks > 0
    /\ Cardinality({id \in DOMAIN gl.kind : gl.kind[id] = "buffer"}) = 2

\* C7: aspect-correct circle.  For every surface size, the matrix of a
\* frame maps the unit circle to a shape that is circular on screen: its
\* horizontal clip-space radius times the surface width equals its
\* vertical clip-space radius times the surface height.
C7_CircularOnScreen ==
    mvp # NoMatrix =>
        LET c == ShaderPosition(mvp, QInt(0), QInt(0))
            e == ShaderPosition(mvp, QInt(1), QInt(0))
            n == ShaderPosition(mvp, QInt(0), QInt(1))
            rx == QSub(QDiv(e[0], e[3]), QDiv(c[0], c[3]))
            ry == QSub(QDiv(n[1], n[3]), QDiv(c[1], c[3]))
        IN  QMul(rx, QInt(drawnOn[1])) = QMul(ry, QInt(drawnOn[2]))

\* C10: a skipped frame leaves the state unchanged.  When drawFrame finds
\* no window, or the lock fails, the call returns without storing a pixel,
\* advancing g_time, locking or posting, and without touching g_running or
\* g_window; the loop then sleeps and goes on to its next iteration.
C10_SkippedFrame ==
    [][/\ ((loop = "draw" /\ g_window = NULL /\ loop' # loop)
            \/ (loop = "lock" /\ loop' \notin {"lock", "fill"})) =>
              /\ loop' = "sleep"
              /\ UNCHANGED <<pixels, stores, oob, buffer, locked, g_time, posts,
                             posted, g_running, g_window, g_render_thread>>
       /\ (loop = "draw" /\ g_window # NULL /\ loop' # loop) => loop' = "lock"
       /\ (loop = "sleep" /\ loop' # loop) => loop' = "check"]_vars

\* C10 witness: a frame skipped because the lock failed, back at the loop
\* test with nothing posted.
C10_Witness ==
    /\ loop = "check"
    /\ frames = 1
    /\ g_window # NULL
    /\ posts = 0
    /\ ~locked

\* A session whose start failed: surface-created has returned without a
\* loop thread and without a window, and surface-destroyed has not finished.
FailedSession ==
    /\ ctrl \in {"active", "join", "release"}
    /\ loopThread = 0
    /\ g_window = NULL

HoldsBuffer == {"fill", "circle", "time", "unlock"}

\* C12: frame buffer lock protocol.  The buffer is locked exactly while the
\* loop thread is between a successful lock and its unlock-and-post, so a
\* lock is never attempted on a locked buffer and every lock is matched by
\* one unlock-and-post; pixels are written and the time accumulator is
\* advanced only while the buffer is locked; the accumulator has advanced
\* once for every locked frame (posted frames plus the one in flight past
\* its time step); an unlock-and-post, failed or not, changes nothing but
\* the lock and the post count and leaves the loop running; and under fair
\* scheduling every locked buffer is eventually posted.
C12_LockProtocol ==
    /\ [](locked <=> loop \in HoldsBuffer)
    /\ [](g_time = posts + (IF loop = "unlock" THEN 1 ELSE 0))
    /\ [][/\ locked' # locked =>
                \/ loop = "lock" /\ ~locked /\ loop' = "fill" /\ posts' = posts
                \/ loop = "unlock" /\ locked /\ posts' = posts + 1
          /\ posts' # posts => (locked /\ ~locked')
          /\ pixels' # pixels => (locked' /\ loop \in {"lock", "fill", "circle"})
          /\ g_time' # g_time => (locked /\ locked' /\ g_time' = g_time + 1)
          /\ (locked /\ ~locked') =>
                /\ loop' = "sleep"
                /\ UNCHANGED <<hostVars, g_time, buffer, pixels, stores, oob,
                               centre, frames, afterStop>>]_vars
    /\ (locked ~> ~locked)

\* C12 witness: an unlock-and-post has failed and the loop has gone on to
\* lock the next frame's buffer.
C12_Witness == ~posted /\ posts >= 1 /\ locked /\ loop = "fill" /\ g_running

\* Vertices of the unit-circle mesh: the centre and the four axis points.
MeshVertices == {<<0, 0>>, <<1, 0>>, <<0, 1>>, <<-1, 0>>, <<0, -1>>}

\* C13: MVP composition order.  For the matrix of every drawn frame and
\* every mesh vertex v, the shader's uMVPMatrix * v equals the projection
\* applied to the model transform of v; and for aspect >= 1 the circle's
\* centre is at clip-space (2x - 1, 2y - 1), within [-1, 1] on both axes.
C13_ProjectionTimesModel ==
    mvp # NoMatrix =>
        LET projection == ProjectionMatrix(drawnOn[1], drawnOn[2])
            model == ModelMatrix(drawnOn[1], drawnOn[2], g_circleX, g_circleY)
            clip == ShaderPosition(mvp, QInt(0), QInt(0))
            x == Q(g_circleX, One)
            y == Q(g_circleY, One)
        IN  /\ \A v \in MeshVertices :
                  LET mv == ShaderPosition(model, QInt(v[1]), QInt(v[2]))
                  IN  ShaderPosition(mvp, QInt(v[1]), QInt(v[2]))
                         = ShaderPosition(projection, mv[0], mv[1])
            /\ QGeq(Aspect(drawnOn[1], drawnOn[2]), QInt(1)) =>
                  /\ clip[0] = QSub(QMul(x, QInt(2)), QInt(1))
                  /\ clip[1] = QSub(QMul(y, QInt(2)), QInt(1))
                  /\ QGeq(clip[0], QInt(-1)) /\ QGeq(QInt(1), clip[0])
                  /\ QGeq(clip[1], QInt(-1)) /\ QGeq(QInt(1), clip[1])

====
